---- MODULE Spec2Model ----
(***************************************************************************)
(* Session manager of logging.email (backend/lib/services/session.py):     *)
(* sessions, rotating refresh tokens, risk scoring, security events and    *)
(* the Redis mirror, as driven by concurrent request handlers.  Every      *)
(* handler owns its own SQLAlchemy session, so the rows it has loaded are  *)
(* private snapshots; the shared state changes only at db.commit().        *)
(***************************************************************************)
EXTENDS Integers, Sequences, FiniteSets, TLC

\* ---------------------------------------------------------------- bounds
MaxSessions == 1
MaxTokens == 3
MaxEvents == 2
MaxNow == 60
MaxLateTokens == 5
MaxLateNow == 120
MaxTwoSessions == 2
MaxTwoTokens == 4
MaxTwoEvents == 3

\* ------------------------------------------------------------- constants
REAUTH_RISK == 70
\* settings.refresh_token_lifetime_days / settings.session_absolute_limit_days
REFRESH_TOKEN_LIFETIME == 30
SESSION_ABSOLUTE_LIMIT == 90

\* Python None for string columns, NULL for integer / timestamp columns.
None == "None"
NULL == -1

Procs == {"p1", "p2"}
Users == {1, 2}
TickSteps == {30}
LateTickSteps == {15}

\* ------------------------------------------------------ request contexts
\* request_data as built by the routes: ip, user_agent, device_id and
\* client_id; the other keys calculate_risk reads are absent (dict.get
\* gives None).
Ctx(dev, cli, ua, ip) ==
    [device_id |-> dev, client_id |-> cli, user_agent |-> ua, ip |-> ip,
     user_agent_hash |-> None, browser_family |-> None,
     asn |-> NULL, country |-> None]

CtxBase == Ctx("dev1", "web", "chrome/1", "ip1")
CtxNewDevice == Ctx("dev2", "web", "chrome/1", "ip1")
CtxNewDeviceClient == Ctx("dev2", "app", "chrome/1", "ip1")
CtxGeoJump == Ctx("dev2", "app", "chrome/1", "ip2")

CtxNewIp == Ctx("dev1", "web", "chrome/1", "ip2")
CtxNewAgent == Ctx("dev1", "web", "firefox/1", "ip1")
CtxAgentUpdate == Ctx("dev1", "web", "chrome/2", "ip1")

CreateContexts == {CtxBase}
RequestContexts == {CtxBase, CtxNewDevice, CtxNewDeviceClient}
SeqRequestContexts == {CtxBase, CtxNewDevice, CtxNewDeviceClient, CtxNewIp,
                       CtxGeoJump}

\* --------------------------------------------------------- pure helpers
\* hash_token: sha256 hex digest, modelled as an injective map from the
\* plaintext secret (a token number) to its digest.
hash_token(token) == 1000 + token

\* user_agents.parse(ua).browser.family
BrowserFamily(ua) ==
    CASE ua = "chrome/1" -> "Chrome"
      [] ua = "chrome/2" -> "Chrome"
      [] ua = "firefox/1" -> "Firefox"
      [] OTHER -> None

UAHash(ua) ==
    CASE ua = "chrome/1" -> "h-chrome/1"
      [] ua = "chrome/2" -> "h-chrome/2"
      [] ua = "firefox/1" -> "h-firefox/1"
      [] OTHER -> "h-other"

parse_user_agent(ua_string) ==
    [browser_family |-> BrowserFamily(ua_string), hash |-> UAHash(ua_string)]

\* stub: no MaxMind lookup yet
get_geo_info(ip) == [asn |-> NULL, country |-> None]

\* mutant: only the device and the client rule are applied
DeviceClientRisk(session, request_data) ==
    (IF request_data.device_id # None
        /\ request_data.device_id # session.device_id THEN 40 ELSE 0)
    + (IF request_data.client_id # None
          /\ request_data.client_id # session.client_id THEN 30 ELSE 0)

\* mutant: a request without a device id is scored as a changed device
AbsentDeviceScored(session, request_data) ==
    (IF request_data.device_id # session.device_id THEN 40 ELSE 0)
    + (IF request_data.client_id # None
          /\ request_data.client_id # session.client_id THEN 30 ELSE 0)
    + (IF request_data.user_agent_hash # None
          /\ request_data.user_agent_hash # session.user_agent_hash
       THEN IF request_data.browser_family = session.browser_family
            THEN 5 ELSE 20
       ELSE 0)
    + (IF request_data.ip # None /\ request_data.ip # session.last_ip
       THEN IF request_data.asn # NULL /\ request_data.asn = session.last_asn
            THEN 2
            ELSE IF request_data.country # None
                    /\ request_data.country = session.last_country
                 THEN 8 ELSE 25
       ELSE 0)

\* mutant: an IP that is present is scored whether or not it has changed
NetworkAlwaysScored(session, request_data) ==
    IF request_data.ip # None THEN 25 ELSE 0

calculate_risk(session, request_data) ==
    LET device == IF request_data.device_id # None
                     /\ request_data.device_id # session.device_id
                  THEN 40 ELSE 0
        client == IF request_data.client_id # None
                     /\ request_data.client_id # session.client_id
                  THEN 30 ELSE 0
        agent == IF request_data.user_agent_hash # None
                    /\ request_data.user_agent_hash # session.user_agent_hash
                 THEN IF request_data.browser_family = session.browser_family
                      THEN 5 ELSE 20
                 ELSE 0
        network == IF request_data.ip # None
                      /\ request_data.ip # session.last_ip
                   THEN IF request_data.asn # NULL
                           /\ request_data.asn = session.last_asn
                        THEN 2
                        ELSE IF request_data.country # None
                                /\ request_data.country = session.last_country
                             THEN 8 ELSE 25
                   ELSE 0
    IN device + client + agent + network

\* ----------------------------------------------------------------- state
VARIABLES
    sessions,   \* table sessions: row i has id i
    tokens,     \* table refresh_tokens: row i has id i, secret i
    events,     \* table security_events, in insertion order
    cache,      \* Redis: set of [key, value, expires]
    now,        \* datetime.utcnow(), in days
    proc        \* per request handler: operation, position, locals

vars == <<sessions, tokens, events, cache, now, proc>>

NoSession ==
    [id |-> 0, user_id |-> 0, expires_at |-> NULL, revoked_at |-> NULL,
     device_id |-> None, client_id |-> None, user_agent_hash |-> None,
     browser_family |-> None, last_ip |-> None, last_asn |-> NULL,
     last_country |-> None, risk_score |-> 0]

NoToken ==
    [id |-> 0, session_id |-> 0, token_hash |-> 0, expires_at |-> NULL,
     revoked_at |-> NULL, replaced_by |-> NULL]

Idle ==
    [op |-> "none", pc |-> "done", session_id |-> 0, refresh_token |-> 0,
     user_id |-> 0, request_data |-> CtxBase, token_record |-> NoToken,
     session |-> NoSession, pending |-> <<>>, result |-> "none",
     returned |-> 0]

\* ----------------------------------------------------------------- cache
\* json.dumps has an encoder for dict, list, str, numbers, bool and None
\* only; a declarative model instance (SessionModel) raises TypeError.
IsModelInstance(value) == "risk_score" \in DOMAIN value

\* mutant: every value can be serialised
AlwaysSerializable(value) == TRUE

JsonSerializable(value) == ~IsModelInstance(value)

cache_key(session_id) == <<"session", session_id>>

\* try: setex(key, ttl, json.dumps(value)) / except Exception: pass
cache_set(c, key, value, ttl) ==
    IF JsonSerializable(value)
    THEN {e \in c : e.key # key}
         \cup {[key |-> key, value |-> value, expires |-> now + ttl]}
    ELSE c

cache_delete(c, key) == {e \in c : e.key # key}

\* redis get: live entries only; None when the key is missing
CacheHit(c, key) == \E e \in c : e.key = key /\ e.expires > now

cache_get(c, key) ==
    IF CacheHit(c, key)
    THEN (CHOOSE e \in c : e.key = key /\ e.expires > now).value
    ELSE NoSession

\* mutant: the remaining lifetime is not tested
AnyLifetime(session) == TRUE

\* line 127
RemainingLifetime(session) == session.expires_at - now

\* line 128: if ttl > 0
HasLifetime(session) == RemainingLifetime(session) > 0

cache_session(c, session) ==
    IF HasLifetime(session)
    THEN cache_set(c, cache_key(session.id), session,
                   RemainingLifetime(session))
    ELSE c

\* ----------------------------------------------------------------- store
QuerySession(session_id) ==
    IF session_id \in DOMAIN sessions THEN sessions[session_id] ELSE NoSession

QueryToken(token_hash) ==
    IF \E i \in DOMAIN tokens : tokens[i].token_hash = token_hash
    THEN tokens[CHOOSE i \in DOMAIN tokens : tokens[i].token_hash = token_hash]
    ELSE NoToken

\* mutant: every commit also slides the expiry of the row forward
FlushSliding(row, loaded, current) ==
    [f \in DOMAIN row |->
        IF f = "expires_at" /\ row[f] # NULL THEN now + SESSION_ABSOLUTE_LIMIT
        ELSE IF current[f] # loaded[f] THEN current[f] ELSE row[f]]

\* mutant: the commit writes nothing
FlushNothing(row, loaded, current) == row

\* mutant: the commit writes the whole in-memory row back
FlushWholeRow(row, loaded, current) == current

\* The unit of work writes, at commit, the columns whose in-memory value
\* differs from the value loaded; the other columns keep what is stored.
Flush(row, loaded, current) ==
    [f \in DOMAIN row |-> IF current[f] # loaded[f] THEN current[f] ELSE row[f]]

\* mutant: the row is served as it was before any revocation
StaleSession(session_id) ==
    [QuerySession(session_id) EXCEPT !.revoked_at = NULL]

\* load_session: the row served to the caller
load_session(session_id) ==
    IF CacheHit(cache, cache_key(session_id))
    THEN cache_get(cache, cache_key(session_id))
    ELSE QuerySession(session_id)

\* mutant: every row that is found is backfilled
BackfillsFound(session) == session.id # 0

\* line 120: session and not session.revoked_at and expires_at > utcnow()
Backfills(session) ==
    /\ session.id # 0
    /\ session.revoked_at = NULL
    /\ session.expires_at > now

\* load_session: the cache after the call (backfill on a valid miss)
load_session_cache(session_id) ==
    LET session == QuerySession(session_id)
    IN IF CacheHit(cache, cache_key(session_id)) THEN cache
       ELSE IF Backfills(session)
            THEN cache_session(cache, session)
            ELSE cache

\* mutant: the event is not written
EventDropped(user_id, session_id, event_type) == events

log_security_event(user_id, session_id, event_type) ==
    Append(events, [user_id |-> user_id, session_id |-> session_id,
                    event_type |-> event_type])

\* -------------------------------------------------------------- handlers
\* The tables are bounded: a call that is going to insert a row is let in
\* only while there is room for its row and for those of the calls in
\* flight that are going to insert one.
Revoked(session_id) ==
    session_id \in DOMAIN sessions /\ sessions[session_id].revoked_at # NULL

InsertsToken == {"refresh_commit"}

InsertsEvent ==
    {"auth_revoke", "auth_log", "refresh_reuse", "refresh_reuse_log",
     "refresh_suspicious", "refresh_suspicious_log", "revoke_all_loop"}

TokenRoom ==
    Len(tokens) + Cardinality({q \in Procs : proc[q].pc \in InsertsToken})
        < MaxTokens

EventRoom ==
    Len(events) + Cardinality({q \in Procs : proc[q].pc \in InsertsEvent})
        < MaxEvents

Room(pc) ==
    /\ pc \in InsertsToken => TokenRoom
    /\ pc \in InsertsEvent => EventRoom

\* p has just entered a handler and there is room for what it will insert
Admitted(p) == Room(proc'[p].pc)

Start(p, op) == [Idle EXCEPT !.op = op, !.pc = "start"]

\* The handler returns: its frame is dropped; what it was called with and
\* what it answered stay on record.
Returned(me, result) ==
    [Idle EXCEPT !.op = me.op, !.session_id = me.session_id,
                 !.refresh_token = me.refresh_token,
                 !.token_record = me.token_record,
                 !.user_id = me.user_id, !.result = result]

Finish(p, result) == [proc EXCEPT ![p] = Returned(proc[p], result)]

\* mutant: revoke_session revokes the tokens and leaves the session as it is
TokensOnlyRevoked(loaded, current) == sessions

\* revoke_session, store part: session.revoked_at = utcnow(), the bulk
\* UPDATE of the session's tokens that are not revoked, db.commit().
RevokedSessions(loaded, current) ==
    [sessions EXCEPT ![loaded.id] =
        Flush(@, loaded, [current EXCEPT !.revoked_at = now])]

\* mutant: the UPDATE reaches only the oldest token of the session
OldestTokenRevoked(session_id) ==
    [i \in DOMAIN tokens |->
        IF tokens[i].session_id = session_id /\ tokens[i].revoked_at = NULL
           /\ \A j \in DOMAIN tokens :
                  tokens[j].session_id = session_id => i <= j
        THEN [tokens[i] EXCEPT !.revoked_at = now]
        ELSE tokens[i]]

\* mutant: the session's tokens are deleted instead of marked
TokensDeleted(session_id) ==
    LET Kept(token) == token.session_id # session_id
    IN SelectSeq(tokens, Kept)

\* mutant: the bulk UPDATE of the tokens is left out
TokensUntouched(session_id) == tokens

RevokedTokens(session_id) ==
    [i \in DOMAIN tokens |->
        IF tokens[i].session_id = session_id /\ tokens[i].revoked_at = NULL
        THEN [tokens[i] EXCEPT !.revoked_at = now]
        ELSE tokens[i]]

revoke_session(loaded, current) ==
    /\ sessions' = RevokedSessions(loaded, current)
    /\ tokens' = RevokedTokens(loaded.id)
    /\ cache' = cache_delete(cache, cache_key(loaded.id))

\* ---- create_session: one commit (inside log_security_event), then the
\* cache write.
NewSession(session_id, user_id, request_data) ==
    LET ua_info == parse_user_agent(request_data.user_agent)
        geo_info == get_geo_info(request_data.ip)
    IN [id |-> session_id, user_id |-> user_id,
        expires_at |-> now + SESSION_ABSOLUTE_LIMIT, revoked_at |-> NULL,
        device_id |-> request_data.device_id,
        client_id |-> request_data.client_id,
        user_agent_hash |-> ua_info.hash,
        browser_family |-> ua_info.browser_family,
        last_ip |-> request_data.ip, last_asn |-> geo_info.asn,
        last_country |-> geo_info.country, risk_score |-> 0]

\* mutant: the token is born revoked
TokenBornRevoked(token_id, session_id) ==
    [id |-> token_id, session_id |-> session_id,
     token_hash |-> hash_token(token_id),
     expires_at |-> now + REFRESH_TOKEN_LIFETIME,
     revoked_at |-> now, replaced_by |-> NULL]

NewToken(token_id, session_id) ==
    [id |-> token_id, session_id |-> session_id,
     token_hash |-> hash_token(token_id),
     expires_at |-> now + REFRESH_TOKEN_LIFETIME,
     revoked_at |-> NULL, replaced_by |-> NULL]

create_session(p, user_id, request_data) ==
    LET session_id == Len(sessions) + 1
        token_id == Len(tokens) + 1
        session == NewSession(session_id, user_id, request_data)
    IN /\ proc[p].pc = "done"
       /\ sessions' = Append(sessions, session)
       /\ tokens' = Append(tokens, NewToken(token_id, session_id))
       /\ events' = log_security_event(user_id, session_id, "session_created")
       /\ cache' = cache_session(cache, session)
       /\ proc' = [proc EXCEPT ![p] =
              [Idle EXCEPT !.op = "create", !.user_id = user_id,
                           !.session_id = session_id, !.result = "ok",
                           !.returned = token_id]]
       /\ UNCHANGED now

\* ---- authenticate_request
\* lines 141-142: the in-memory session after scoring (last_seen_at, which
\* nothing reads, is left out of the rows)
Scored(session, request_data) ==
    [session EXCEPT
        !.risk_score = @ + calculate_risk(session, request_data)]

ContextUpdated(session, request_data) ==
    IF request_data.ip # None
    THEN [session EXCEPT !.last_ip = request_data.ip,
                         !.last_asn = get_geo_info(request_data.ip).asn,
                         !.last_country = get_geo_info(request_data.ip).country]
    ELSE session

\* mutant: the guard tests only revoked_at
SessionRevokedOnly(session) == session.revoked_at # NULL

\* mutant: the guard lets every session through
SessionNeverInvalid(session) == FALSE

\* mutant: the guard tests only that the session exists
SessionAbsent(session) == session.id = 0

\* lines 135 and 172: not session or session.revoked_at
SessionInvalid(session) == session.id = 0 \/ session.revoked_at # NULL

\* mutant: the threshold itself is let through
AboveReauth(session) == session.risk_score > REAUTH_RISK

\* line 145
NeedsReauth(session) == session.risk_score >= REAUTH_RISK

\* lines 133-145: load, the two guards, the risk test
authenticate_load(p, session_id, request_data) ==
    LET session == load_session(session_id)
        me == [Start(p, "authenticate") EXCEPT
                   !.session_id = session_id,
                   !.request_data = request_data, !.session = session]
    IN /\ proc[p].pc = "done"
       /\ cache' = load_session_cache(session_id)
       /\ proc' = [proc EXCEPT ![p] =
              IF SessionInvalid(session)
              THEN Returned(me, "Session invalid")
              ELSE IF session.expires_at < now
              THEN Returned(me, "Session expired")
              ELSE IF NeedsReauth(Scored(session, request_data))
              THEN [me EXCEPT !.pc = "auth_revoke"]
              ELSE [me EXCEPT !.pc = "auth_commit"]]
       /\ UNCHANGED <<sessions, tokens, events, now>>

\* line 146: revoke_session, which also flushes the scored session
authenticate_revoke(p) ==
    /\ proc[p].pc = "auth_revoke"
    /\ revoke_session(proc[p].session,
                      Scored(proc[p].session, proc[p].request_data))
    /\ proc' = [proc EXCEPT ![p].pc = "auth_log"]
    /\ UNCHANGED <<events, now>>

\* lines 147-148
authenticate_log(p) ==
    /\ proc[p].pc = "auth_log"
    /\ events' = log_security_event(proc[p].session.user_id,
                                    proc[p].session.id,
                                    "session_revoked_risk")
    /\ proc' = Finish(p, "Reauthentication required")
    /\ UNCHANGED <<sessions, tokens, cache, now>>

\* lines 150-160
authenticate_commit(p) ==
    LET loaded == proc[p].session
        current == ContextUpdated(Scored(loaded, proc[p].request_data),
                                  proc[p].request_data)
    IN /\ proc[p].pc = "auth_commit"
       /\ sessions' = [sessions EXCEPT ![loaded.id] = Flush(@, loaded, current)]
       /\ cache' = cache_session(cache, sessions'[loaded.id])
       /\ proc' = Finish(p, "ok")
       /\ UNCHANGED <<tokens, events, now>>

\* ---- refresh_access_token
\* lines 164-187: the token by its hash, the session, then the guards in
\* the order of the code
refresh_load(p, refresh_token, request_data) ==
    LET token_record == QueryToken(hash_token(refresh_token))
        session == load_session(token_record.session_id)
        me == [Start(p, "refresh") EXCEPT
                   !.refresh_token = refresh_token,
                   !.request_data = request_data,
                   !.token_record = token_record,
                   !.session_id = token_record.session_id,
                   !.session = session]
    IN /\ proc[p].pc = "done"
       /\ cache' = IF token_record.id = 0 THEN cache
                   ELSE load_session_cache(token_record.session_id)
       /\ proc' = [proc EXCEPT ![p] =
              IF token_record.id = 0
              THEN Returned(me, "Invalid refresh token")
              ELSE IF SessionInvalid(session)
              THEN Returned(me, "Session invalid")
              ELSE IF token_record.revoked_at # NULL
              THEN [me EXCEPT !.pc = "refresh_reuse"]
              ELSE IF token_record.expires_at < now
              THEN Returned(me, "Refresh token expired")
              ELSE IF calculate_risk(session, request_data) >= REAUTH_RISK
              THEN [me EXCEPT !.pc = "refresh_suspicious"]
              ELSE [me EXCEPT !.pc = "refresh_commit"]]
       /\ UNCHANGED <<sessions, tokens, events, now>>

\* line 177
refresh_reuse_revoke(p) ==
    /\ proc[p].pc = "refresh_reuse"
    /\ revoke_session(proc[p].session, proc[p].session)
    /\ proc' = [proc EXCEPT ![p].pc = "refresh_reuse_log"]
    /\ UNCHANGED <<events, now>>

\* lines 178-179
refresh_reuse_log(p) ==
    /\ proc[p].pc = "refresh_reuse_log"
    /\ events' = log_security_event(proc[p].session.user_id,
                                    proc[p].session.id,
                                    "token_reuse_detected")
    /\ proc' = Finish(p, "Refresh token reuse detected")
    /\ UNCHANGED <<sessions, tokens, cache, now>>

\* line 188
refresh_suspicious_revoke(p) ==
    /\ proc[p].pc = "refresh_suspicious"
    /\ revoke_session(proc[p].session, proc[p].session)
    /\ proc' = [proc EXCEPT ![p].pc = "refresh_suspicious_log"]
    /\ UNCHANGED <<events, now>>

\* lines 189-190
refresh_suspicious_log(p) ==
    /\ proc[p].pc = "refresh_suspicious_log"
    /\ events' = log_security_event(proc[p].session.user_id,
                                    proc[p].session.id,
                                    "session_revoked_suspicious")
    /\ proc' = Finish(p, "Suspicious activity detected")
    /\ UNCHANGED <<sessions, tokens, cache, now>>

\* mutant: the forward pointer is not set
RotatedNoPointer(token_record, new_id) ==
    [token_record EXCEPT !.revoked_at = now]

\* mutant: the forward pointer names the presented token itself
RotatedSelfPointer(token_record, new_id) ==
    [token_record EXCEPT !.revoked_at = now, !.replaced_by = token_record.id]

\* lines 192-203: the presented token after rotation, as flushed
Rotated(token_record, new_id) ==
    [token_record EXCEPT !.revoked_at = now, !.replaced_by = new_id]

\* lines 205-213: the in-memory session after a successful refresh
Refreshed(session, request_data) ==
    ContextUpdated(
        [session EXCEPT
            !.risk_score = @ + calculate_risk(session, request_data)],
        request_data)

\* lines 192-218: one commit, then the cache write
refresh_commit(p) ==
    LET token_record == proc[p].token_record
        loaded == proc[p].session
        new_id == Len(tokens) + 1
    IN /\ proc[p].pc = "refresh_commit"
       /\ tokens' = Append(
              [tokens EXCEPT ![token_record.id] =
                  Flush(@, token_record, Rotated(token_record, new_id))],
              NewToken(new_id, loaded.id))
       /\ sessions' = [sessions EXCEPT ![loaded.id] =
              Flush(@, loaded, Refreshed(loaded, proc[p].request_data))]
       /\ cache' = cache_session(cache, sessions'[loaded.id])
       /\ proc' = [proc EXCEPT ![p] =
              [Returned(proc[p], "ok") EXCEPT !.returned = new_id]]
       /\ UNCHANGED <<events, now>>

\* ---- logout (routes/api.py): load_session, then revoke_session
revoke_load(p, session_id) ==
    LET session == load_session(session_id)
        me == [Start(p, "revoke") EXCEPT !.session_id = session_id,
                                         !.session = session]
    IN /\ proc[p].pc = "done"
       /\ cache' = load_session_cache(session_id)
       /\ proc' = [proc EXCEPT ![p] =
              IF session.id = 0
              THEN Returned(me, "ok")
              ELSE [me EXCEPT !.pc = "revoke_commit"]]
       /\ UNCHANGED <<sessions, tokens, events, now>>

revoke_commit(p) ==
    /\ proc[p].pc = "revoke_commit"
    /\ revoke_session(proc[p].session, proc[p].session)
    /\ proc' = Finish(p, "ok")
    /\ UNCHANGED <<events, now>>

\* ---- revoke_all_sessions
\* mutant: the query leaves out the user_id filter
AllActiveSessions(user_id) ==
    {i \in DOMAIN sessions : sessions[i].revoked_at = NULL}

ActiveSessionsOf(user_id) ==
    {i \in DOMAIN sessions :
        sessions[i].user_id = user_id /\ sessions[i].revoked_at = NULL}

RECURSIVE SetToSeq(_)
SetToSeq(S) ==
    IF S = {} THEN <<>>
    ELSE LET m == CHOOSE x \in S : \A y \in S : x <= y
         IN <<m>> \o SetToSeq(S \ {m})

\* lines 234-237
revoke_all_query(p, user_id) ==
    /\ proc[p].pc = "done"
    /\ proc' = [proc EXCEPT ![p] =
           [Start(p, "revokeAll") EXCEPT
               !.user_id = user_id, !.pc = "revoke_all_loop",
               !.pending = SetToSeq(ActiveSessionsOf(user_id))]]
    /\ UNCHANGED <<sessions, tokens, events, cache, now>>

\* lines 239-240: one iteration; the rows were loaded not revoked
revoke_all_revoke(p) ==
    /\ proc[p].pc = "revoke_all_loop"
    /\ proc[p].pending # <<>>
    /\ LET session_id == Head(proc[p].pending)
           loaded == [sessions[session_id] EXCEPT !.revoked_at = NULL]
       IN revoke_session(loaded, loaded)
    /\ proc' = [proc EXCEPT ![p].pending = Tail(@)]
    /\ UNCHANGED <<events, now>>

\* line 242
revoke_all_log(p) ==
    /\ proc[p].pc = "revoke_all_loop"
    /\ proc[p].pending = <<>>
    /\ events' = log_security_event(proc[p].user_id, 0, "logout_all")
    /\ proc' = Finish(p, "ok")
    /\ UNCHANGED <<sessions, tokens, cache, now>>

\* ---- the handlers statement by statement: each db.commit() and the cache
\* call that follows it are steps of their own.  After a commit the
\* attributes of the handler's row are expired, so cache_session reads the
\* row from the store again.
\* revoke_session lines 222-229: the assignments, the bulk UPDATE, the commit
revoke_store(loaded, current) ==
    /\ sessions' = RevokedSessions(loaded, current)
    /\ tokens' = RevokedTokens(loaded.id)

\* revoke_session line 230
revoke_evict(session_id) ==
    cache' = cache_delete(cache, cache_key(session_id))

\* create_session lines 75-106
create_store(p, user_id, request_data) ==
    LET session_id == Len(sessions) + 1
        token_id == Len(tokens) + 1
    IN /\ proc[p].pc = "done"
       /\ sessions' = Append(sessions,
                             NewSession(session_id, user_id, request_data))
       /\ tokens' = Append(tokens, NewToken(token_id, session_id))
       /\ events' = log_security_event(user_id, session_id, "session_created")
       /\ proc' = [proc EXCEPT ![p] =
              [Start(p, "create") EXCEPT
                  !.user_id = user_id, !.session_id = session_id,
                  !.returned = token_id, !.pc = "create_cache"]]
       /\ UNCHANGED <<cache, now>>

\* create_session lines 107-109
create_cache(p) ==
    /\ proc[p].pc = "create_cache"
    /\ cache' = cache_session(cache, QuerySession(proc[p].session_id))
    /\ proc' = [proc EXCEPT ![p] =
           [Returned(proc[p], "ok") EXCEPT !.returned = proc[p].returned]]
    /\ UNCHANGED <<sessions, tokens, events, now>>

\* authenticate_request line 146, up to the commit in revoke_session
authenticate_revoke_store(p) ==
    /\ proc[p].pc = "auth_revoke"
    /\ revoke_store(proc[p].session,
                    Scored(proc[p].session, proc[p].request_data))
    /\ proc' = [proc EXCEPT ![p].pc = "auth_evict"]
    /\ UNCHANGED <<events, cache, now>>

\* authenticate_request line 146, the cache_delete in revoke_session
authenticate_revoke_evict(p) ==
    /\ proc[p].pc = "auth_evict"
    /\ revoke_evict(proc[p].session.id)
    /\ proc' = [proc EXCEPT ![p].pc = "auth_log"]
    /\ UNCHANGED <<sessions, tokens, events, now>>

\* authenticate_request lines 150-157
authenticate_store(p) ==
    LET loaded == proc[p].session
        current == ContextUpdated(Scored(loaded, proc[p].request_data),
                                  proc[p].request_data)
    IN /\ proc[p].pc = "auth_commit"
       /\ sessions' = [sessions EXCEPT ![loaded.id] = Flush(@, loaded, current)]
       /\ proc' = [proc EXCEPT ![p].pc = "auth_cache"]
       /\ UNCHANGED <<tokens, events, cache, now>>

\* authenticate_request lines 158-160
authenticate_cache(p) ==
    /\ proc[p].pc = "auth_cache"
    /\ cache' = cache_session(cache, QuerySession(proc[p].session.id))
    /\ proc' = Finish(p, "ok")
    /\ UNCHANGED <<sessions, tokens, events, now>>

\* refresh_access_token line 177
refresh_reuse_store(p) ==
    /\ proc[p].pc = "refresh_reuse"
    /\ revoke_store(proc[p].session, proc[p].session)
    /\ proc' = [proc EXCEPT ![p].pc = "refresh_reuse_evict"]
    /\ UNCHANGED <<events, cache, now>>

refresh_reuse_evict(p) ==
    /\ proc[p].pc = "refresh_reuse_evict"
    /\ revoke_evict(proc[p].session.id)
    /\ proc' = [proc EXCEPT ![p].pc = "refresh_reuse_log"]
    /\ UNCHANGED <<sessions, tokens, events, now>>

\* refresh_access_token line 188
refresh_suspicious_store(p) ==
    /\ proc[p].pc = "refresh_suspicious"
    /\ revoke_store(proc[p].session, proc[p].session)
    /\ proc' = [proc EXCEPT ![p].pc = "refresh_suspicious_evict"]
    /\ UNCHANGED <<events, cache, now>>

refresh_suspicious_evict(p) ==
    /\ proc[p].pc = "refresh_suspicious_evict"
    /\ revoke_evict(proc[p].session.id)
    /\ proc' = [proc EXCEPT ![p].pc = "refresh_suspicious_log"]
    /\ UNCHANGED <<sessions, tokens, events, now>>

\* refresh_access_token lines 192-215
refresh_store(p) ==
    LET token_record == proc[p].token_record
        loaded == proc[p].session
        new_id == Len(tokens) + 1
    IN /\ proc[p].pc = "refresh_commit"
       /\ tokens' = Append(
              [tokens EXCEPT ![token_record.id] =
                  Flush(@, token_record, Rotated(token_record, new_id))],
              NewToken(new_id, loaded.id))
       /\ sessions' = [sessions EXCEPT ![loaded.id] =
              Flush(@, loaded, Refreshed(loaded, proc[p].request_data))]
       /\ proc' = [proc EXCEPT ![p].pc = "refresh_cache",
                               ![p].returned = new_id]
       /\ UNCHANGED <<events, cache, now>>

\* refresh_access_token lines 216-218
refresh_cache(p) ==
    /\ proc[p].pc = "refresh_cache"
    /\ cache' = cache_session(cache, QuerySession(proc[p].session.id))
    /\ proc' = [proc EXCEPT ![p] =
           [Returned(proc[p], "ok") EXCEPT !.returned = proc[p].returned]]
    /\ UNCHANGED <<sessions, tokens, events, now>>

\* logout: revoke_session up to its commit
logout_store(p) ==
    /\ proc[p].pc = "revoke_commit"
    /\ revoke_store(proc[p].session, proc[p].session)
    /\ proc' = [proc EXCEPT ![p].pc = "revoke_evict"]
    /\ UNCHANGED <<events, cache, now>>

logout_evict(p) ==
    /\ proc[p].pc = "revoke_evict"
    /\ revoke_evict(proc[p].session.id)
    /\ proc' = Finish(p, "ok")
    /\ UNCHANGED <<sessions, tokens, events, now>>

\* revoke_all_sessions lines 239-240: one iteration up to its commit
revoke_all_store(p) ==
    /\ proc[p].pc = "revoke_all_loop"
    /\ proc[p].pending # <<>>
    /\ LET session_id == Head(proc[p].pending)
           loaded == [sessions[session_id] EXCEPT !.revoked_at = NULL]
       IN revoke_store(loaded, loaded)
    /\ proc' = [proc EXCEPT ![p].pc = "revoke_all_evict"]
    /\ UNCHANGED <<events, cache, now>>

revoke_all_evict(p) ==
    /\ proc[p].pc = "revoke_all_evict"
    /\ revoke_evict(Head(proc[p].pending))
    /\ proc' = [proc EXCEPT ![p].pc = "revoke_all_loop",
                            ![p].pending = Tail(@)]
    /\ UNCHANGED <<sessions, tokens, events, now>>

\* ---- the clock
Tick ==
    \E d \in TickSteps :
        /\ now + d <= MaxNow
        /\ now' = now + d
        /\ UNCHANGED <<sessions, tokens, events, cache, proc>>

\* ------------------------------------------------------------- behaviour
Init ==
    /\ sessions = <<>>
    /\ tokens = <<>>
    /\ events = <<>>
    /\ cache = {}
    /\ now = 0
    /\ proc = [p \in Procs |-> Idle]

\* Spec: two request handlers run concurrently on one session; the clock
\* stands still.
Create ==
    \E p \in Procs, rd \in CreateContexts :
        /\ Len(sessions) < MaxSessions /\ TokenRoom /\ EventRoom
        /\ create_session(p, 1, rd)
AuthenticateLoad ==
    \E p \in Procs, sid \in 1..MaxSessions, rd \in RequestContexts :
        authenticate_load(p, sid, rd) /\ Admitted(p)
AuthenticateRevoke == \E p \in Procs : authenticate_revoke(p)
AuthenticateLog == \E p \in Procs : authenticate_log(p)
AuthenticateCommit == \E p \in Procs : authenticate_commit(p)
\* a secret that was issued, or one (0) that never was
RefreshLoad ==
    \E p \in Procs, t \in DOMAIN tokens \cup {0}, rd \in RequestContexts :
        refresh_load(p, t, rd) /\ Admitted(p)
RefreshReuseRevoke == \E p \in Procs : refresh_reuse_revoke(p)
RefreshReuseLog == \E p \in Procs : refresh_reuse_log(p)
RefreshSuspiciousRevoke == \E p \in Procs : refresh_suspicious_revoke(p)
RefreshSuspiciousLog == \E p \in Procs : refresh_suspicious_log(p)
RefreshCommit == \E p \in Procs : refresh_commit(p)
RevokeLoad == \E p \in Procs, sid \in 1..MaxSessions : revoke_load(p, sid)
RevokeCommit == \E p \in Procs : revoke_commit(p)
RevokeAllQuery == \E p \in Procs : EventRoom /\ revoke_all_query(p, 1)
RevokeAllRevoke == \E p \in Procs : revoke_all_revoke(p)
RevokeAllLog == \E p \in Procs : revoke_all_log(p)

Step ==
    \/ AuthenticateRevoke
    \/ AuthenticateLog
    \/ AuthenticateCommit
    \/ RefreshReuseRevoke
    \/ RefreshReuseLog
    \/ RefreshSuspiciousRevoke
    \/ RefreshSuspiciousLog
    \/ RefreshCommit
    \/ RevokeCommit
    \/ RevokeAllRevoke
    \/ RevokeAllLog

Next ==
    \/ Create
    \/ AuthenticateLoad
    \/ RefreshLoad
    \/ RevokeLoad
    \/ RevokeAllQuery
    \/ Step

Spec == Init /\ [][Next]_vars

\* SpecSeq: one request handler at a time, two users, more request
\* contexts, and the clock advances.
SeqCreate ==
    \E u \in Users, rd \in CreateContexts :
        /\ Len(sessions) < MaxSessions /\ TokenRoom /\ EventRoom
        /\ create_session("p1", u, rd)
SeqAuthenticateLoad ==
    \E sid \in 1..MaxSessions, rd \in SeqRequestContexts :
        authenticate_load("p1", sid, rd) /\ Admitted("p1")
SeqRefreshLoad ==
    \E t \in DOMAIN tokens \cup {0}, rd \in SeqRequestContexts :
        refresh_load("p1", t, rd) /\ Admitted("p1")
SeqRevokeLoad == \E sid \in 1..MaxSessions : revoke_load("p1", sid)
SeqRevokeAllQuery ==
    \E u \in Users : EventRoom /\ revoke_all_query("p1", u)

SeqNext ==
    \/ SeqCreate
    \/ SeqAuthenticateLoad
    \/ SeqRefreshLoad
    \/ SeqRevokeLoad
    \/ SeqRevokeAllQuery
    \/ Step
    \/ Tick

SpecSeq == Init /\ [][SeqNext]_vars

\* SpecLate: one client that always sends the context the session was
\* created with, followed over the whole life of the session and past its
\* absolute expiry (day 90); it may present any secret it was ever given.
LateCreate ==
    /\ Len(sessions) < MaxSessions
    /\ create_session("p1", 1, CtxBase)
LateAuthenticateLoad ==
    \E sid \in 1..MaxSessions : authenticate_load("p1", sid, CtxBase)
LateRefreshLoad ==
    \E t \in DOMAIN tokens :
        /\ Len(tokens) < MaxLateTokens
        /\ refresh_load("p1", t, CtxBase)
        /\ proc'["p1"].pc \in InsertsEvent => EventRoom
\* a call lasts no time on the scale of the clock
LateTick ==
    \E d \in LateTickSteps :
        /\ \A p \in Procs : proc[p].pc = "done"
        /\ now + d <= MaxLateNow
        /\ now' = now + d
        /\ UNCHANGED <<sessions, tokens, events, cache, proc>>

LateNext ==
    \/ LateCreate
    \/ LateAuthenticateLoad
    \/ AuthenticateCommit
    \/ LateRefreshLoad
    \/ RefreshReuseRevoke
    \/ RefreshReuseLog
    \/ RefreshCommit
    \/ LateTick

SpecLate == Init /\ [][LateNext]_vars

\* SpecRisk: the scorer on every combination of a stored fingerprint and a
\* request context.  The session is one that create_session has stored; the
\* nullable columns take both a value and NULL.  One scoring call is made
\* per behaviour, by authenticate_request or by refresh_access_token.
RiskStored ==
    {[NewSession(1, 1, CtxBase) EXCEPT
          !.expires_at = SESSION_ABSOLUTE_LIMIT, !.device_id = d,
          !.browser_family = b, !.last_asn = a, !.last_country = c] :
        d \in {None, "dev1"}, b \in {None, "Chrome"},
        a \in {NULL, 1}, c \in {None, "GB"}}

RiskRequests ==
    {[device_id |-> d, client_id |-> c, user_agent |-> "chrome/1",
      ip |-> i, user_agent_hash |-> h, browser_family |-> b,
      asn |-> a, country |-> k] :
        d \in {None, "dev1", "dev2"}, c \in {None, "web", "app"},
        h \in {None, "h-chrome/1", "h-chrome/2"},
        b \in {None, "Chrome", "Firefox"}, i \in {None, "ip1", "ip2"},
        a \in {NULL, 1, 2}, k \in {None, "GB", "FR"}}

RiskInit ==
    /\ now = 0
    /\ sessions \in {<<stored>> : stored \in RiskStored}
    /\ tokens = <<[NewToken(1, 1) EXCEPT
                      !.expires_at = REFRESH_TOKEN_LIFETIME]>>
    /\ events = <<[user_id |-> 1, session_id |-> 1,
                   event_type |-> "session_created"]>>
    /\ cache = {}
    /\ proc = [p \in Procs |-> Idle]

RiskAuthenticateLoad ==
    \E rd \in RiskRequests :
        /\ proc["p1"].op = "none"
        /\ authenticate_load("p1", 1, rd) /\ Admitted("p1")
RiskRefreshLoad ==
    \E rd \in RiskRequests :
        /\ proc["p1"].op = "none"
        /\ refresh_load("p1", 1, rd) /\ Admitted("p1")

RiskNext ==
    \/ RiskAuthenticateLoad
    \/ AuthenticateRevoke
    \/ AuthenticateLog
    \/ AuthenticateCommit
    \/ RiskRefreshLoad
    \/ RefreshSuspiciousRevoke
    \/ RefreshSuspiciousLog
    \/ RefreshCommit

SpecRisk == RiskInit /\ [][RiskNext]_vars

\* SpecTwo: two users and up to two sessions, two concurrent handlers, every
\* request from the context the session was created with; the clock stands
\* still.
TwoTokenRoom ==
    Len(tokens) + Cardinality({q \in Procs : proc[q].pc \in InsertsToken})
        < MaxTwoTokens

TwoEventRoom ==
    Len(events) + Cardinality({q \in Procs : proc[q].pc \in InsertsEvent})
        < MaxTwoEvents

TwoAdmitted(p) ==
    /\ proc'[p].pc \in InsertsToken => TwoTokenRoom
    /\ proc'[p].pc \in InsertsEvent => TwoEventRoom

TwoCreate ==
    \E p \in Procs, u \in Users :
        /\ Len(sessions) < MaxTwoSessions /\ TwoTokenRoom /\ TwoEventRoom
        /\ create_session(p, u, CtxBase)
TwoRefreshLoad ==
    \E p \in Procs, t \in DOMAIN tokens :
        refresh_load(p, t, CtxBase) /\ TwoAdmitted(p)
TwoRevokeAllQuery ==
    \E p \in Procs, u \in Users : TwoEventRoom /\ revoke_all_query(p, u)

TwoNext ==
    \/ TwoCreate
    \/ TwoRefreshLoad
    \/ RefreshReuseRevoke
    \/ RefreshReuseLog
    \/ RefreshCommit
    \/ TwoRevokeAllQuery
    \/ RevokeAllRevoke
    \/ RevokeAllLog

SpecTwo == Init /\ [][TwoNext]_vars

\* revoke_all_sessions is a loop over a list it has already fetched, run by
\* a worker that is not stopped: each handler's next iteration, and its
\* closing log_security_event, is eventually taken.
SpecTwoLive ==
    /\ SpecTwo
    /\ \A p \in Procs :
          WF_vars(revoke_all_revoke(p)) /\ WF_vars(revoke_all_log(p))

\* SpecOrder: one handler at a time, followed statement by statement.
OrderContexts ==
    {CtxBase, CtxNewDevice, CtxNewIp, CtxGeoJump, CtxNewAgent, CtxAgentUpdate}

OrderRoom == Len(tokens) < MaxTokens /\ Len(events) < MaxEvents

OrderCreate ==
    \E u \in Users :
        /\ Len(sessions) < MaxSessions /\ OrderRoom
        /\ create_store("p1", u, CtxBase)
OrderCreateCache == create_cache("p1")
OrderAuthenticateLoad ==
    \E sid \in 1..MaxSessions, rd \in OrderContexts :
        OrderRoom /\ authenticate_load("p1", sid, rd)
OrderAuthenticateRevokeStore == authenticate_revoke_store("p1")
OrderAuthenticateRevokeEvict == authenticate_revoke_evict("p1")
OrderAuthenticateLog == authenticate_log("p1")
OrderAuthenticateStore == authenticate_store("p1")
OrderAuthenticateCache == authenticate_cache("p1")
OrderRefreshLoad ==
    \E t \in DOMAIN tokens \cup {0}, rd \in OrderContexts :
        OrderRoom /\ refresh_load("p1", t, rd)
OrderRefreshReuseStore == refresh_reuse_store("p1")
OrderRefreshReuseEvict == refresh_reuse_evict("p1")
OrderRefreshReuseLog == refresh_reuse_log("p1")
OrderRefreshSuspiciousStore == refresh_suspicious_store("p1")
OrderRefreshSuspiciousEvict == refresh_suspicious_evict("p1")
OrderRefreshSuspiciousLog == refresh_suspicious_log("p1")
OrderRefreshStore == refresh_store("p1")
OrderRefreshCache == refresh_cache("p1")
OrderLogoutLoad == \E sid \in 1..MaxSessions : revoke_load("p1", sid)
OrderLogoutStore == logout_store("p1")
OrderLogoutEvict == logout_evict("p1")
OrderRevokeAllQuery ==
    \E u \in Users : OrderRoom /\ revoke_all_query("p1", u)
OrderRevokeAllStore == revoke_all_store("p1")
OrderRevokeAllEvict == revoke_all_evict("p1")
OrderRevokeAllLog == revoke_all_log("p1")

OrderNext ==
    \/ OrderCreate
    \/ OrderCreateCache
    \/ OrderAuthenticateLoad
    \/ OrderAuthenticateRevokeStore
    \/ OrderAuthenticateRevokeEvict
    \/ OrderAuthenticateLog
    \/ OrderAuthenticateStore
    \/ OrderAuthenticateCache
    \/ OrderRefreshLoad
    \/ OrderRefreshReuseStore
    \/ OrderRefreshReuseEvict
    \/ OrderRefreshReuseLog
    \/ OrderRefreshSuspiciousStore
    \/ OrderRefreshSuspiciousEvict
    \/ OrderRefreshSuspiciousLog
    \/ OrderRefreshStore
    \/ OrderRefreshCache
    \/ OrderLogoutLoad
    \/ OrderLogoutStore
    \/ OrderLogoutEvict
    \/ OrderRevokeAllQuery
    \/ OrderRevokeAllStore
    \/ OrderRevokeAllEvict
    \/ OrderRevokeAllLog

SpecOrder == Init /\ [][OrderNext]_vars

\* ------------------------------------------------------------ properties
Done(p, op) == proc[p].pc = "done" /\ proc[p].op = op

\* p takes the first step of a call of `op` (a step that leaves the record
\* of p's last call as it was is the same call with the same answer)
Calls(p, op) ==
    proc[p].pc = "done" /\ proc'[p] # proc[p] /\ proc'[p].op = op

TokensOf(session_id) ==
    {i \in DOMAIN tokens : tokens[i].session_id = session_id}

LiveTokensOf(session_id) ==
    {i \in TokensOf(session_id) :
        tokens[i].revoked_at = NULL /\ ~(tokens[i].expires_at < now)}

HasEvent(session_id, event_type) ==
    \E i \in DOMAIN events : /\ events[i].session_id = session_id
                             /\ events[i].event_type = event_type

\* C1: of two concurrent refresh calls that present the same refresh token
\* (both looked the token up before it was revoked), at most one produces a
\* rotation (returns a successor token).
C1_AtMostOneRotation ==
    \A p, q \in Procs :
        (/\ p # q
         /\ Done(p, "refresh") /\ Done(q, "refresh")
         /\ proc[p].refresh_token = proc[q].refresh_token
         /\ proc[q].token_record.revoked_at = NULL
         /\ proc[p].result = "ok")
        => proc[q].result # "ok"

\* C2: of two concurrent refresh calls that present the same refresh token
\* (both looked the token up before it was revoked), the one that does not
\* rotate fails with "Refresh token reuse detected", and once both have
\* returned the session is revoked.
C2_LoserDetectsReuse ==
    \A p, q \in Procs :
        (/\ p # q
         /\ Done(p, "refresh") /\ Done(q, "refresh")
         /\ proc[p].refresh_token = proc[q].refresh_token
         /\ proc[p].result = "ok"
         /\ proc[q].token_record.revoked_at = NULL)
        => /\ proc[q].result = "Refresh token reuse detected"
           /\ Revoked(proc[q].session_id)

\* C3 (as claimed): a refresh call that presents a token which had been
\* rotated when the call looked it up fails with "Refresh token reuse
\* detected" and leaves the session revoked.
C3_EveryReplayDetectsReuse ==
    \A p \in Procs :
        (Done(p, "refresh") /\ proc[p].token_record.replaced_by # NULL)
        => /\ proc[p].result = "Refresh token reuse detected"
           /\ Revoked(proc[p].session_id)

\* C3 (amended): such a call fails, with "Refresh token reuse detected" or,
\* when the session is already revoked, with "Session invalid", and the
\* session is revoked once it has returned.
C3_EveryReplayFails ==
    \A p \in Procs :
        (Done(p, "refresh") /\ proc[p].token_record.replaced_by # NULL)
        => /\ proc[p].result \in {"Refresh token reuse detected",
                                  "Session invalid"}
           /\ Revoked(proc[p].session_id)

\* a second replay: the session was already revoked when the call loaded it
C3_Witness ==
    \E p, q \in Procs :
        /\ p # q
        /\ Done(p, "refresh") /\ proc[p].token_record.replaced_by # NULL
        /\ proc[p].result = "Session invalid"
        /\ Done(q, "refresh") /\ proc[q].refresh_token = proc[p].refresh_token
        /\ proc[q].result = "Refresh token reuse detected"

\* C4: no step lowers the stored risk_score of a session (stated for the
\* sessions that are not revoked when the step is taken, the lifetime the
\* data model speaks of).
C4_RiskNeverDecreases ==
    [][\A i \in DOMAIN sessions :
          sessions[i].revoked_at = NULL
          => sessions'[i].risk_score >= sessions[i].risk_score]_vars

\* C5: no step clears the revoked_at of a session.
C5_RevokedIsTerminal ==
    [][\A i \in DOMAIN sessions :
          sessions[i].revoked_at # NULL => sessions'[i].revoked_at # NULL]_vars

\* a handler that loaded the session while it was active is about to
\* commit after the session has been revoked
C5_Witness ==
    \E p \in Procs :
        /\ proc[p].pc \in {"auth_commit", "refresh_commit"}
        /\ proc[p].session.revoked_at = NULL
        /\ Revoked(proc[p].session.id)

\* C6: revoke_session on a session that is already revoked changes no
\* session, no token and no security event.
C6_RevokeIdempotent ==
    [][\A p \in Procs :
          (/\ proc[p].pc = "revoke_commit"
           /\ proc'[p].pc = "done"
           /\ Revoked(proc[p].session.id))
          => /\ sessions' = sessions
             /\ tokens' = tokens
             /\ events' = events]_vars

\* C7: a session one of whose tokens has been rotated owns at most one
\* token that is neither revoked nor expired.
C7_OneLiveToken ==
    \A i \in DOMAIN sessions :
        (\E t \in TokensOf(i) : tokens[t].replaced_by # NULL)
        => Cardinality(LiveTokensOf(i)) <= 1

\* C8: an authenticate call that starts on a session that is revoked in
\* the store fails with "Session invalid".
C8_RevokedStaysRejected ==
    [][\A p \in Procs :
          (Calls(p, "authenticate") /\ Revoked(proc'[p].session_id))
          => /\ proc'[p].pc = "done"
             /\ proc'[p].result = "Session invalid"]_vars

\* the session was revoked while another call on it was in flight, and an
\* authenticate made after the revocation has failed
C8_Witness ==
    \E p, q \in Procs :
        /\ p # q
        /\ Done(p, "authenticate") /\ proc[p].result = "Session invalid"
        /\ Revoked(proc[p].session_id)
        /\ proc[q].pc \in {"auth_commit", "refresh_commit"}
        /\ proc[q].session.id = proc[p].session_id

\* C9: on a session created from CtxBase whose score reached 40 by a new
\* device id, the authenticate that also carries a new client id leaves
\* risk_score = 70 and the session revoked (no other call interferes).
C9_Scenario ==
    \A p, q \in Procs :
        (/\ p # q
         /\ proc[q] = Idle
         /\ proc[p].op = "authenticate" /\ proc[p].pc = "auth_log"
         /\ proc[p].request_data = CtxNewDeviceClient
         /\ proc[p].session.risk_score = 40
         /\ proc[p].session.device_id = CtxBase.device_id
         /\ proc[p].session.client_id = CtxBase.client_id)
        => /\ sessions[proc[p].session.id].risk_score = 70
           /\ Revoked(proc[p].session.id)

\* C10: an authenticate call goes on to succeed only while the score with
\* this request's delta is below REAUTH_RISK; otherwise it revokes the
\* session and all its tokens, records session_revoked_risk and fails with
\* "Reauthentication required".
C10_InFlight ==
    \A p \in Procs :
        (proc[p].op = "authenticate" /\ proc[p].pc # "done")
        => /\ proc[p].pc \in {"auth_revoke", "auth_log", "auth_commit"}
           /\ proc[p].pc = "auth_commit"
                <=> Scored(proc[p].session,
                           proc[p].request_data).risk_score < REAUTH_RISK

C10_Returned ==
    \A p \in Procs :
        Done(p, "authenticate")
        => /\ proc[p].result = "Reauthentication required"
                => /\ Revoked(proc[p].session_id)
                   /\ HasEvent(proc[p].session_id, "session_revoked_risk")
           /\ proc[p].result
                \in {"ok", "Session invalid", "Session expired",
                     "Reauthentication required"}

C10_Steps ==
    \A p \in Procs :
        /\ (proc[p].pc = "auth_revoke" /\ proc'[p] # proc[p])
            => /\ proc'[p].pc = "auth_log"
               /\ sessions'[proc[p].session.id].revoked_at # NULL
               /\ \A t \in DOMAIN tokens' :
                      tokens'[t].session_id = proc[p].session.id
                      => tokens'[t].revoked_at # NULL
        /\ (proc[p].pc = "auth_log" /\ proc'[p] # proc[p])
            => proc'[p].result = "Reauthentication required"
        /\ (proc[p].pc = "auth_commit" /\ proc'[p] # proc[p])
            => proc'[p].result = "ok"

C10_ReauthRejectsAndRevokes ==
    /\ [](C10_InFlight /\ C10_Returned)
    /\ [][C10_Steps]_vars

\* the request that tipped the score has been rejected
C10_Witness ==
    \E p \in Procs :
        /\ Done(p, "authenticate")
        /\ proc[p].result = "Reauthentication required"
        /\ sessions[proc[p].session_id].risk_score >= REAUTH_RISK
        /\ \E t \in TokensOf(proc[p].session_id) : tokens[t].replaced_by # NULL

\* C11: a refresh call goes on to rotate the token only while the stored
\* risk_score plus this request's delta is below REAUTH_RISK.
C11_CumulativeTest ==
    \A p \in Procs :
        proc[p].pc = "refresh_commit"
        => Scored(proc[p].session, proc[p].request_data).risk_score
               < REAUTH_RISK

\* The rule table of the risk scorer, one row per signal.
TableDevice(stored, request) ==
    IF request.device_id = None \/ request.device_id = stored.device_id
    THEN 0 ELSE 40

TableClient(stored, request) ==
    IF request.client_id = None \/ request.client_id = stored.client_id
    THEN 0 ELSE 30

TableAgent(stored, request) ==
    IF request.user_agent_hash = None
       \/ request.user_agent_hash = stored.user_agent_hash
    THEN 0
    ELSE IF request.browser_family = stored.browser_family THEN 5 ELSE 20

SameKnown(a, b, unknown) == a # unknown /\ a = b

TableNetwork(stored, request) ==
    IF request.ip = None \/ request.ip = stored.last_ip THEN 0
    ELSE IF SameKnown(request.asn, stored.last_asn, NULL) THEN 2
    ELSE IF SameKnown(request.country, stored.last_country, None) THEN 8
    ELSE 25

TableDelta(stored, request) ==
    TableDevice(stored, request) + TableClient(stored, request)
    + TableAgent(stored, request) + TableNetwork(stored, request)

\* C12: the delta a call scores is the sum of the four rows of the table,
\* for every stored fingerprint and request context; a call whose device,
\* client and network rows are 40, 30 and 25 scores at least 95 and is on
\* the path that revokes the session; the score a call stores is the
\* loaded score plus the table's delta.
C12_Delta ==
    \A p \in Procs :
        proc[p].pc # "done"
        => /\ calculate_risk(proc[p].session, proc[p].request_data)
                = TableDelta(proc[p].session, proc[p].request_data)
           /\ (/\ TableDevice(proc[p].session, proc[p].request_data) = 40
               /\ TableClient(proc[p].session, proc[p].request_data) = 30
               /\ TableNetwork(proc[p].session, proc[p].request_data) = 25)
              => /\ calculate_risk(proc[p].session, proc[p].request_data)
                      >= 95
                 /\ proc[p].pc \in {"auth_revoke", "auth_log",
                                    "refresh_suspicious",
                                    "refresh_suspicious_log"}

C12_Stored ==
    \A p \in Procs :
        (/\ proc[p].pc \in {"auth_revoke", "auth_commit", "refresh_commit"}
         /\ proc'[p] # proc[p])
        => sessions'[proc[p].session.id].risk_score
               = proc[p].session.risk_score
                 + TableDelta(proc[p].session, proc[p].request_data)

C12_RiskIsSumOfRules == []C12_Delta /\ [][C12_Stored]_vars

\* device, client and geo-jump mismatch on one authenticate: 95, revoked
C12_Witness ==
    \E p \in Procs :
        /\ proc[p].pc = "auth_log"
        /\ TableDelta(proc[p].session, proc[p].request_data) = 95
        /\ TableNetwork(proc[p].session, proc[p].request_data) = 25
        /\ sessions[proc[p].session.id].risk_score = 95
        /\ Revoked(proc[p].session.id)

\* no handler is on a path that revokes the session for its risk
NoRiskRevocation ==
    \A p \in Procs :
        proc[p].pc \notin {"auth_revoke", "auth_log", "refresh_suspicious",
                           "refresh_suspicious_log"}

\* C13 (as claimed): a session that receives only authenticate and refresh
\* calls that carry the stored device id, client id, user agent and IP keeps
\* risk_score = 0 and is never revoked.
C13_StaysActive ==
    /\ NoRiskRevocation
    /\ \A i \in DOMAIN sessions :
           sessions[i].risk_score = 0 /\ sessions[i].revoked_at = NULL

\* C13 (amended): such a session keeps risk_score = 0 and is never revoked
\* for its risk; it is revoked only by a refresh call that presents a secret
\* already rotated (token_reuse_detected).
C13_RiskStaysZero ==
    /\ NoRiskRevocation
    /\ \A i \in DOMAIN sessions :
           /\ sessions[i].risk_score = 0
           /\ sessions[i].revoked_at # NULL
                => \/ HasEvent(i, "token_reuse_detected")
                   \/ \E p \in Procs :
                          /\ proc[p].pc = "refresh_reuse_log"
                          /\ proc[p].token_record.revoked_at # NULL

\* the session has reached its absolute expiry active and with score 0,
\* after three rotations and an authenticate
C13_Witness ==
    \E i \in DOMAIN sessions :
        /\ now = sessions[i].expires_at
        /\ sessions[i].revoked_at = NULL /\ sessions[i].risk_score = 0
        /\ Cardinality(TokensOf(i)) >= 4
        /\ \E p \in Procs : Done(p, "authenticate") /\ proc[p].result = "ok"

\* C14: a refresh call that presents a revoked token while the session is
\* not revoked takes the reuse path whether or not the token has expired;
\* that path revokes the session and every token of the session, then
\* records token_reuse_detected and fails with "Refresh token reuse
\* detected".
C14_Steps ==
    \A p \in Procs :
        /\ (/\ Calls(p, "refresh")
            /\ proc'[p].token_record.id # 0
            /\ proc'[p].token_record.revoked_at # NULL
            /\ ~Revoked(proc'[p].session_id))
           => proc'[p].pc = "refresh_reuse"
        /\ (proc[p].pc = "refresh_reuse" /\ proc'[p] # proc[p])
           => /\ proc'[p].pc = "refresh_reuse_log"
              /\ sessions'[proc[p].session.id].revoked_at # NULL
              /\ \A t \in DOMAIN tokens' :
                     tokens'[t].session_id = proc[p].session.id
                     => tokens'[t].revoked_at # NULL
        /\ (proc[p].pc = "refresh_reuse_log" /\ proc'[p] # proc[p])
           => /\ events' = Append(events,
                     [user_id |-> proc[p].session.user_id,
                      session_id |-> proc[p].session.id,
                      event_type |-> "token_reuse_detected"])
              /\ proc'[p].pc = "done"
              /\ proc'[p].result = "Refresh token reuse detected"

C14_ReuseRevokesSession == [][C14_Steps]_vars

\* the replayed token was revoked and had expired; its successor, live until
\* then, was revoked with the session
C14_Witness ==
    \E p \in Procs :
        /\ Done(p, "refresh")
        /\ proc[p].result = "Refresh token reuse detected"
        /\ proc[p].token_record.expires_at < now
        /\ Revoked(proc[p].session_id)
        /\ HasEvent(proc[p].session_id, "token_reuse_detected")
        /\ \E t \in TokensOf(proc[p].session_id) :
               /\ tokens[t].replaced_by = NULL
               /\ tokens[t].revoked_at = sessions[proc[p].session_id].revoked_at

\* C15: the step that completes a successful refresh marks the presented
\* token revoked, points its replaced_by at the one token it inserts, which
\* is not revoked and belongs to the same session, changes no other token,
\* and hands back the secret whose hash the new token stores.
C15_Steps ==
    \A p \in Procs :
        (proc[p].pc = "refresh_commit" /\ proc'[p] # proc[p])
        => LET old == proc[p].token_record.id
               new == Len(tokens) + 1
           IN /\ proc'[p].pc = "done" /\ proc'[p].result = "ok"
              /\ Len(tokens') = Len(tokens) + 1
              /\ tokens'[old].revoked_at # NULL
              /\ tokens'[old].replaced_by = tokens'[new].id
              /\ tokens'[new].revoked_at = NULL
              /\ tokens'[new].session_id = tokens[old].session_id
              /\ tokens'[new].token_hash = hash_token(proc'[p].returned)
              /\ \A t \in DOMAIN tokens :
                     t # old => tokens'[t] = tokens[t]
              /\ \A t \in DOMAIN tokens :
                     tokens[t].token_hash # tokens'[new].token_hash

C15_RefreshRotates == [][C15_Steps]_vars

\* a refresh that scored a delta below the threshold has rotated the token
C15_Witness ==
    \E p \in Procs :
        /\ Done(p, "refresh") /\ proc[p].result = "ok"
        /\ sessions[proc[p].session_id].risk_score > 0
        /\ tokens[proc[p].refresh_token].replaced_by = proc[p].returned
        /\ tokens[proc[p].returned].revoked_at = NULL

\* C16: a refresh call that starts on a session whose expires_at has passed
\* does not go on to rotate the token.
C16_ExpiredSessionNotRefreshed ==
    [][\A p \in Procs :
          (/\ Calls(p, "refresh")
           /\ proc'[p].session_id \in DOMAIN sessions
           /\ sessions[proc'[p].session_id].expires_at < now)
          => proc'[p].pc # "refresh_commit"]_vars

\* p's next step is a call of revoke_session, on the session Revokee(p)
Revoking(p) ==
    \/ proc[p].pc \in {"revoke_commit", "auth_revoke", "refresh_reuse",
                       "refresh_suspicious"}
    \/ proc[p].pc = "revoke_all_loop" /\ proc[p].pending # <<>>

Revokee(p) ==
    IF proc[p].pc = "revoke_all_loop" THEN Head(proc[p].pending)
    ELSE proc[p].session.id

\* C17: revoke_session on a session that is not revoked sets its revoked_at
\* to the time of the call, revokes every token of the session that was not
\* revoked, leaves the other tokens as they were, and leaves no cache entry
\* for the session; when it is done the session owns no token that is not
\* revoked.
C17_Steps ==
    \A p \in Procs :
        (Revoking(p) /\ proc'[p] # proc[p] /\ ~Revoked(Revokee(p)))
        => LET i == Revokee(p)
           IN /\ sessions'[i].revoked_at = now
              /\ DOMAIN tokens' = DOMAIN tokens
              /\ \A t \in DOMAIN tokens :
                     IF tokens[t].session_id = i /\ tokens[t].revoked_at = NULL
                     THEN tokens'[t] = [tokens[t] EXCEPT !.revoked_at = now]
                     ELSE tokens'[t] = tokens[t]
              /\ \A t \in DOMAIN tokens' :
                     tokens'[t].session_id = i => tokens'[t].revoked_at # NULL
              /\ ~CacheHit(cache', cache_key(i))

C17_RevokeCascades == [][C17_Steps]_vars

\* a logout has revoked a session that owned a rotated and a live token
C17_Witness ==
    \E p \in Procs :
        /\ Done(p, "revoke")
        /\ Revoked(proc[p].session_id)
        /\ Len(events) = 1
        /\ Cardinality(TokensOf(proc[p].session_id)) >= 2
        /\ \A t \in TokensOf(proc[p].session_id) : tokens[t].revoked_at # NULL

\* C18: the call of revoke_session made by logout on a session that is not
\* revoked appends exactly one security event, for that session.
C18_RevokeLogsEvent ==
    [][\A p \in Procs :
          (/\ proc[p].pc = "revoke_commit"
           /\ proc'[p].pc = "done"
           /\ ~Revoked(proc[p].session.id))
          => /\ Len(events') = Len(events) + 1
             /\ events'[Len(events')].session_id = proc[p].session.id]_vars

\* the errors that follow a protective teardown, and the event of each
TeardownEvent ==
    [x \in {"Reauthentication required", "Refresh token reuse detected",
            "Suspicious activity detected"} |->
        CASE x = "Reauthentication required" -> "session_revoked_risk"
          [] x = "Refresh token reuse detected" -> "token_reuse_detected"
          [] OTHER -> "session_revoked_suspicious"]

\* C19: on the reuse and the risk paths of authenticate and refresh the
\* session and all its tokens are revoked in one commit, the security event
\* is committed next, and only then is the error returned: a call that is
\* about to log has its session revoked in the store, and a call that has
\* returned one of these errors has its session revoked and its event in
\* the store.
C19_Committed ==
    \A p \in Procs :
        /\ proc[p].pc \in {"auth_log", "refresh_reuse_log",
                           "refresh_suspicious_log"}
           => Revoked(proc[p].session.id)
        /\ (proc[p].pc = "done" /\ proc[p].result \in DOMAIN TeardownEvent)
           => /\ Revoked(proc[p].session_id)
              /\ HasEvent(proc[p].session_id, TeardownEvent[proc[p].result])

C19_Steps ==
    \A p \in Procs :
        /\ (/\ proc[p].pc \in {"auth_revoke", "refresh_reuse",
                               "refresh_suspicious"}
            /\ proc'[p] # proc[p])
           => /\ proc'[p].pc # "done"
              /\ Revoked(proc[p].session.id)'
              /\ \A t \in DOMAIN tokens' :
                     tokens'[t].session_id = proc[p].session.id
                     => tokens'[t].revoked_at # NULL
        /\ (/\ proc[p].pc # "done" /\ proc'[p].pc = "done"
            /\ proc'[p].result \in DOMAIN TeardownEvent)
           => /\ Revoked(proc[p].session.id)
              /\ events' = Append(events,
                     [user_id |-> proc[p].session.user_id,
                      session_id |-> proc[p].session.id,
                      event_type |-> TeardownEvent[proc'[p].result]])

C19_TeardownBeforeError == []C19_Committed /\ [][C19_Steps]_vars

\* one call has returned after a reuse teardown while another call on the
\* same session is still in flight
C19_Witness ==
    \E p, q \in Procs :
        /\ p # q
        /\ Done(p, "refresh")
        /\ proc[p].result = "Refresh token reuse detected"
        /\ HasEvent(proc[p].session_id, "token_reuse_detected")
        /\ proc[q].pc # "done"
        /\ proc[q].session.id = proc[p].session_id

\* A cache that fails on every call: get answers None, set and delete
\* change nothing (the three wrappers swallow the exception).
FailedGet(c, key) == NoSession

FailedSet(c, key, value, ttl) == c

FailedDelete(c, key) == c

\* the rows a handler may hand to cache_session
CacheableRows ==
    {row \in {sessions[i] : i \in DOMAIN sessions}
              \cup {proc[p].session : p \in Procs}
              \cup {ContextUpdated(
                        Scored(proc[p].session, proc[p].request_data),
                        proc[p].request_data) : p \in Procs} :
        row.id # 0}

\* C20: in every reachable state each cache operation a handler can make
\* answers and leaves the cache exactly as the failing cache does, so that
\* load_session serves the store's row and no result or store write of
\* create, authenticate, refresh or revoke depends on the cache.
C20_CacheFailureSame ==
    /\ \A i \in 0..MaxSessions :
           /\ cache_get(cache, cache_key(i))
                = FailedGet(cache, cache_key(i))
           /\ cache_delete(cache, cache_key(i))
                = FailedDelete(cache, cache_key(i))
           /\ load_session(i) = QuerySession(i)
           /\ load_session_cache(i) = cache
    /\ \A row \in CacheableRows :
           /\ cache_set(cache, cache_key(row.id), row, row.expires_at - now)
                = FailedSet(cache, cache_key(row.id), row,
                            row.expires_at - now)
           /\ cache_session(cache, row) = cache

\* get, set and delete have all been called: an authenticate succeeded and
\* a logout revoked the session
C20_Witness ==
    \E p, q \in Procs :
        /\ Done(p, "authenticate") /\ proc[p].result = "ok"
        /\ Done(q, "revoke") /\ Revoked(proc[q].session_id)
        /\ proc[p].session_id = proc[q].session_id

C22_Steps ==
    \A p \in Procs :
        Calls(p, "authenticate")
        => LET i == proc'[p].session_id
               absent == i \notin DOMAIN sessions
               failed == /\ proc'[p].pc = "done"
                         /\ UNCHANGED <<sessions, tokens, events>>
           IN /\ (absent \/ Revoked(i))
                 <=> (failed /\ proc'[p].result = "Session invalid")
              /\ (~absent /\ ~Revoked(i) /\ sessions[i].expires_at < now)
                 <=> (failed /\ proc'[p].result = "Session expired")

C22_AuthenticateRejects == [][C22_Steps]_vars

\* an authenticate has been refused on an expired session that is not
\* revoked and still owns a live token
C22_Witness ==
    \E p \in Procs :
        /\ Done(p, "authenticate") /\ proc[p].result = "Session expired"
        /\ ~Revoked(proc[p].session_id)
        /\ sessions[proc[p].session_id].expires_at < now
        /\ LiveTokensOf(proc[p].session_id) # {}

\* C23: a create step adds one session that is ACTIVE (not revoked) with
\* risk_score 0, the caller's user and expires_at = now + the absolute
\* lifetime; adds exactly one token, not revoked, not replaced, owned by that
\* session, whose secret is the one handed back; adds exactly one event,
\* session_created, for that session; and changes no row that existed.
C23_Steps ==
    \A p \in Procs :
        Calls(p, "create")
        => LET i == Len(sessions) + 1
               t == Len(tokens) + 1
           IN /\ proc'[p].pc = "done" /\ proc'[p].result = "ok"
              /\ Len(sessions') = i
              /\ SubSeq(sessions', 1, Len(sessions)) = sessions
              /\ sessions'[i].id = i
              /\ sessions'[i].user_id = proc'[p].user_id
              /\ sessions'[i].revoked_at = NULL
              /\ sessions'[i].risk_score = 0
              /\ sessions'[i].expires_at = now + SESSION_ABSOLUTE_LIMIT
              /\ Len(tokens') = t
              /\ SubSeq(tokens', 1, Len(tokens)) = tokens
              /\ tokens'[t].session_id = i
              /\ tokens'[t].revoked_at = NULL
              /\ tokens'[t].replaced_by = NULL
              /\ tokens'[t].token_hash = hash_token(proc'[p].returned)
              /\ Len(events') = Len(events) + 1
              /\ SubSeq(events', 1, Len(events)) = events
              /\ events'[Len(events')].event_type = "session_created"
              /\ events'[Len(events')].session_id = i

C23_CreateBuildsSession == [][C23_Steps]_vars

\* a session was created after the clock had moved: its expiry is later than
\* the absolute lifetime, and it owns exactly one token, which is live
C23_Witness ==
    \E p \in Procs :
        /\ Done(p, "create")
        /\ \E i \in DOMAIN sessions :
              /\ sessions[i].expires_at > SESSION_ABSOLUTE_LIMIT
              /\ sessions[i].revoked_at = NULL
              /\ Cardinality(TokensOf(i)) = 1
              /\ LiveTokensOf(i) = TokensOf(i)
              /\ HasEvent(i, "session_created")

\* C24: when an authenticate call commits successfully, the stored session
\* it leaves behind scores a risk delta of 0 against the very request
\* context the call carried (the stored device, client, user-agent and
\* network fields were replaced by the request's).
C24_Steps ==
    \A p \in Procs :
        (proc[p].pc = "auth_commit" /\ proc'[p].pc = "done"
         /\ proc'[p].result = "ok")
        => calculate_risk(sessions'[proc[p].session_id],
                          proc[p].request_data) = 0

C24_SnapshotReplaced == [][C24_Steps]_vars

\* C25: a refresh call settles on the first of these that holds of the
\* store, in this order: the secret matches no token ("Invalid refresh
\* token"); the owning session is absent or revoked ("Session invalid"); the
\* token is revoked (reuse detection); the token has expired ("Refresh token
\* expired"); only then is the risk of the request judged.  A call that ends
\* with one of the three plain refusals changes no session, token or event.
C25_Quiet(p, result) ==
    /\ proc'[p].pc = "done"
    /\ proc'[p].result = result
    /\ UNCHANGED <<sessions, tokens, events>>

C25_Steps ==
    \A p \in Procs :
        Calls(p, "refresh")
        => LET h == hash_token(proc'[p].refresh_token)
               known == {t \in DOMAIN tokens : tokens[t].token_hash = h}
           IN IF known = {}
              THEN C25_Quiet(p, "Invalid refresh token")
              ELSE LET t == CHOOSE t \in known : TRUE
                       i == tokens[t].session_id
                   IN IF i \notin DOMAIN sessions \/ Revoked(i)
                      THEN C25_Quiet(p, "Session invalid")
                      ELSE IF tokens[t].revoked_at # NULL
                      THEN proc'[p].pc = "refresh_reuse"
                      ELSE IF tokens[t].expires_at < now
                      THEN C25_Quiet(p, "Refresh token expired")
                      ELSE proc'[p].pc \in {"refresh_suspicious",
                                            "refresh_commit"}

C25_RefreshCheckOrder == [][C25_Steps]_vars

\* a refresh was refused with "Session invalid" although its token was both
\* revoked and expired, and the refusal left the token as it was
C25_Witness ==
    \E p \in Procs :
        /\ Done(p, "refresh") /\ proc[p].result = "Session invalid"
        /\ \E t \in DOMAIN tokens :
              /\ tokens[t].token_hash = hash_token(proc[p].refresh_token)
              /\ tokens[t].revoked_at # NULL
              /\ tokens[t].expires_at < now
              /\ Revoked(tokens[t].session_id)

\* C26: once a token's replaced_by is set, no step changes it.
C26_Steps ==
    \A t \in DOMAIN tokens :
        tokens[t].replaced_by # NULL
        => tokens'[t].replaced_by = tokens[t].replaced_by

C26_SuccessorWrittenOnce == [][C26_Steps]_vars

\* the token reached from t by following replaced_by n times (0 when the
\* chain ends earlier)
RECURSIVE Successor(_, _)
Successor(t, n) ==
    IF n = 0 \/ t = 0 THEN t
    ELSE IF tokens[t].replaced_by = NULL THEN 0
    ELSE Successor(tokens[t].replaced_by, n - 1)

\* C27: every replaced_by names a token of the store that belongs to the
\* same session as the token it replaces, and following replaced_by from a
\* token never leads back to that token.
C27_ForwardChain ==
    \A t \in DOMAIN tokens :
        /\ tokens[t].replaced_by # NULL
           => /\ tokens[t].replaced_by \in DOMAIN tokens
              /\ tokens[tokens[t].replaced_by].session_id
                     = tokens[t].session_id
        /\ \A n \in 1..Len(tokens) : Successor(t, n) # t

\* a chain of two links in one session, with a token of another session
\* issued between its members
C27_Witness ==
    \E a, b, c, x \in DOMAIN tokens :
        /\ tokens[a].replaced_by = b /\ tokens[b].replaced_by = c
        /\ a < x /\ x < c
        /\ tokens[x].session_id # tokens[a].session_id

\* the sessions p's revokeAll still has to revoke
Pending(p) ==
    IF proc[p].pc = "revoke_all_loop"
    THEN {proc[p].pending[k] : k \in DOMAIN proc[p].pending}
    ELSE {}

\* every row that is not session i or a token of it is left as it was
OthersUntouched(i) ==
    /\ \A j \in DOMAIN sessions : j # i => sessions'[j] = sessions[j]
    /\ \A t \in DOMAIN tokens :
           tokens[t].session_id # i => tokens'[t] = tokens[t]

\* the steps of revokeAll: it starts with exactly the ACTIVE sessions of the
\* user to do and changes nothing yet; a session leaves the to-do list only
\* in a step that leaves it REVOKED with every token it owns revoked, and
\* that step changes no other session and no token of another session; the
\* call returns only with the list empty, changing no session or token.
C29_Steps ==
    \A p \in Procs :
        /\ Calls(p, "revokeAll")
           => /\ Pending(p)' = ActiveSessionsOf(proc'[p].user_id)
              /\ UNCHANGED <<sessions, tokens>>
        /\ (proc[p].pc = "revoke_all_loop" /\ proc'[p] # proc[p])
           => IF proc[p].pending = <<>>
              THEN /\ proc'[p].pc = "done" /\ proc'[p].result = "ok"
                   /\ UNCHANGED <<sessions, tokens>>
              ELSE LET i == Head(proc[p].pending)
                   IN /\ Pending(p)' = Pending(p) \ {i}
                      /\ sessions[i].user_id = proc[p].user_id
                      /\ sessions'[i].revoked_at # NULL
                      /\ \A t \in DOMAIN tokens' :
                             tokens'[t].session_id = i
                             => tokens'[t].revoked_at # NULL
                      /\ OthersUntouched(i)

\* C29: revokeAll(user) takes as its work exactly the sessions of that user
\* that are ACTIVE when it starts; each of them is eventually REVOKED, in a
\* step that revokes all its tokens and touches no row of another session
\* (so none of another user); and every revokeAll call terminates.
C29_RevokeAllSweeps ==
    /\ [][C29_Steps]_vars
    /\ \A p \in Procs :
           /\ \A i \in 1..MaxTwoSessions :
                  (i \in Pending(p)) ~> (i \in DOMAIN sessions /\ Revoked(i))
           /\ (proc[p].pc = "revoke_all_loop") ~> Done(p, "revokeAll")

\* a revokeAll of a user with two sessions has returned: both are revoked
\* with all their tokens, one of which had been rotated
C29_Witness ==
    \E p \in Procs :
        /\ Done(p, "revokeAll")
        /\ \E i, j \in DOMAIN sessions :
              /\ i # j
              /\ sessions[i].user_id = proc[p].user_id
              /\ sessions[j].user_id = proc[p].user_id
              /\ Revoked(i) /\ Revoked(j)
              /\ Cardinality(TokensOf(i)) > 1
              /\ \A t \in TokensOf(i) \cup TokensOf(j) :
                     tokens[t].revoked_at # NULL

\* the four rules of calculate_risk taken one at a time: the score of a
\* request that carries only the named signal
OnlyDevice(rd) ==
    [rd EXCEPT !.client_id = None, !.user_agent_hash = None, !.ip = None]
OnlyClient(rd) ==
    [rd EXCEPT !.device_id = None, !.user_agent_hash = None, !.ip = None]
OnlyAgent(rd) ==
    [rd EXCEPT !.device_id = None, !.client_id = None, !.ip = None]
OnlyNetwork(rd) ==
    [rd EXCEPT !.device_id = None, !.client_id = None,
               !.user_agent_hash = None]

\* C30: whatever the stored session holds, a request without a device id
\* scores what the same request scores on its client, user-agent and network
\* signals alone, and likewise for a missing client id, user-agent hash or
\* IP; a request with none of the four signals scores 0.
C30_AbsentScoresZero ==
    \A p \in Procs :
        proc[p].session.id # 0
        => LET s == proc[p].session
               rd == proc[p].request_data
               risk == calculate_risk(s, rd)
               d == calculate_risk(s, OnlyDevice(rd))
               c == calculate_risk(s, OnlyClient(rd))
               a == calculate_risk(s, OnlyAgent(rd))
               n == calculate_risk(s, OnlyNetwork(rd))
           IN /\ risk = d + c + a + n
              /\ rd.device_id = None => d = 0
              /\ rd.client_id = None => c = 0
              /\ rd.user_agent_hash = None => a = 0
              /\ rd.ip = None => n = 0

\* a call is in flight on a session that stores a device, whose request
\* names no device but another IP: it scores on the network alone
C30_Witness ==
    \E p \in Procs :
        /\ proc[p].session.id # 0
        /\ proc[p].session.device_id # None
        /\ proc[p].request_data.device_id = None
        /\ proc[p].request_data.ip # None
        /\ proc[p].request_data.ip # proc[p].session.last_ip
        /\ calculate_risk(proc[p].session, proc[p].request_data) = 25

\* the statements at which a handler calls the cache after a commit
WritesCache == {"create_cache", "auth_cache", "refresh_cache"}
EvictsCache ==
    {"auth_evict", "refresh_reuse_evict", "refresh_suspicious_evict",
     "revoke_evict", "revoke_all_evict"}

\* the session p's pending cache call is about
CacheSubject(p) ==
    CASE proc[p].pc = "create_cache" -> proc[p].session_id
      [] proc[p].pc = "revoke_all_evict" -> Head(proc[p].pending)
      [] OTHER -> proc[p].session.id

\* the store holds what p's handler has computed
C28_Committed(p) ==
    LET i == CacheSubject(p)
        rd == proc[p].request_data
    IN /\ i \in DOMAIN sessions
       /\ proc[p].pc = "create_cache"
          => /\ sessions[i] = NewSession(i, proc[p].user_id, CtxBase)
             /\ LiveTokensOf(i) = {proc[p].returned}
             /\ HasEvent(i, "session_created")
       /\ proc[p].pc = "auth_cache"
          => sessions[i] = ContextUpdated(Scored(proc[p].session, rd), rd)
       /\ proc[p].pc = "refresh_cache"
          => /\ sessions[i] = Refreshed(proc[p].session, rd)
             /\ tokens[proc[p].token_record.id].revoked_at # NULL
             /\ tokens[proc[p].token_record.id].replaced_by = proc[p].returned
             /\ LiveTokensOf(i) = {proc[p].returned}
       /\ proc[p].pc \in EvictsCache
          => /\ Revoked(i)
             /\ LiveTokensOf(i) = {}
       /\ proc[p].pc = "auth_evict"
          => sessions[i].risk_score = Scored(proc[p].session, rd).risk_score

\* C28: a handler that is about to write a session to the cache, or to evict
\* one, has already committed: the store holds the session, token and event
\* rows its call produces (create), the updated session (authenticate), the
\* rotated token and the updated session (refresh), the revoked session with
\* its tokens revoked (every caller of revoke_session); and the step that
\* makes the cache call writes nothing to the store.
C28_Steps ==
    \A p \in Procs :
        (proc[p].pc \in WritesCache \cup EvictsCache /\ proc'[p] # proc[p])
        => /\ UNCHANGED <<sessions, tokens>>
           /\ proc[p].pc \in WritesCache
              => cache' = cache_session(cache, sessions[CacheSubject(p)])
           /\ proc[p].pc \in EvictsCache
              => cache' = cache_delete(cache, cache_key(CacheSubject(p)))

C28_CacheAfterCommit ==
    /\ [](\A p \in Procs :
             proc[p].pc \in WritesCache \cup EvictsCache => C28_Committed(p))
    /\ [][C28_Steps]_vars

\* an authenticate that scored a new IP is about to write the cache: the
\* store already holds the raised score and the new IP
C28_Witness ==
    \E p \in Procs :
        /\ proc[p].pc = "auth_cache"
        /\ sessions[proc[p].session.id].risk_score > proc[p].session.risk_score
        /\ sessions[proc[p].session.id].last_ip # proc[p].session.last_ip

\* C31: while authenticate or refresh works on a session whose recorded
\* fingerprint differs from that of the request's raw user-agent string, the
\* risk it computes is what the other signals score plus the user-agent
\* delta: 5 when the browser family is the recorded one, 20 otherwise.
C31_AgentDeltaScored ==
    \A p \in Procs :
        (/\ proc[p].op \in {"authenticate", "refresh"}
         /\ proc[p].session.id # 0
         /\ parse_user_agent(proc[p].request_data.user_agent).hash
                # proc[p].session.user_agent_hash)
        => LET rd == proc[p].request_data
               ua_info == parse_user_agent(rd.user_agent)
               others == calculate_risk(proc[p].session,
                             [rd EXCEPT !.user_agent_hash = None])
           IN calculate_risk(proc[p].session, rd)
                  = others
                    + (IF ua_info.browser_family
                              = proc[p].session.browser_family
                       THEN 5 ELSE 20)

\* a miss on session i makes load_session call cache_session
C32_Guard ==
    \A i \in 1..MaxSessions :
        Backfills(QuerySession(i))
        <=> /\ i \in DOMAIN sessions
            /\ sessions[i].revoked_at = NULL
            /\ ~(sessions[i].expires_at <= now)

\* a step that loads session i adds to the cache nothing but the store's row
\* of i, and that only if the row is neither revoked nor expired
C32_Steps ==
    \A p \in Procs :
        (proc[p].pc = "done" /\ proc'[p] # proc[p]
         /\ proc'[p].op \in {"authenticate", "refresh", "revoke"})
        => LET i == proc'[p].session_id
           IN \A e \in cache' \ cache :
                  /\ i \in DOMAIN sessions
                  /\ e.key = cache_key(i) /\ e.value = sessions[i]
                  /\ sessions[i].revoked_at = NULL
                  /\ sessions[i].expires_at > now

\* C32: on a miss load_session calls cache_session exactly for a session
\* that is found in the store, not revoked and not expired; a load of a
\* revoked or expired session writes nothing to the cache.
C32_BackfillOnlyValid == []C32_Guard /\ [][C32_Steps]_vars

\* a session past its expiry that is not revoked has just been loaded by an
\* authenticate call, and the cache holds nothing for it
C32_Witness ==
    \E p \in Procs :
        /\ Done(p, "authenticate") /\ proc[p].result = "Session expired"
        /\ ~Revoked(proc[p].session_id)
        /\ ~CacheHit(cache, cache_key(proc[p].session_id))
        /\ \A e \in cache : e.key # cache_key(proc[p].session_id)

\* C33: no step changes the expires_at of a session that exists; it stays
\* the creation time plus the absolute lifetime for as long as the row lives.
C33_Steps ==
    /\ Len(sessions') >= Len(sessions)
    /\ \A i \in DOMAIN sessions :
           sessions'[i].expires_at = sessions[i].expires_at

C33_ExpiryFixed == [][C33_Steps]_vars

\* a session created at day 0 has since been scored by an authenticate from
\* another IP, rotated by a refresh and revoked, on a later day, and still
\* expires on day 90
C33_Witness ==
    \E i \in DOMAIN sessions :
        /\ sessions[i].expires_at = SESSION_ABSOLUTE_LIMIT
        /\ sessions[i].risk_score > 0
        /\ sessions[i].last_ip # CtxBase.ip
        /\ Revoked(i)
        /\ now > 0
        /\ \E t \in TokensOf(i) : tokens[t].replaced_by # NULL

\* C34: every step keeps every token record (same id, session and hash; only
\* revoked_at and replaced_by may be written) and keeps every security event
\* as it is; both tables only gain rows.
C34_Steps ==
    /\ Len(tokens') >= Len(tokens)
    /\ \A t \in DOMAIN tokens :
           /\ tokens'[t].id = tokens[t].id
           /\ tokens'[t].session_id = tokens[t].session_id
           /\ tokens'[t].token_hash = tokens[t].token_hash
           /\ tokens'[t].expires_at = tokens[t].expires_at
    /\ Len(events') >= Len(events)
    /\ SubSeq(events', 1, Len(events)) = events

C34_TablesOnlyGrow == [][C34_Steps]_vars

\* the session has been revoked after a rotation: all its tokens are still
\* in the store, revoked, and the events written so far are all there
C34_Witness ==
    \E i \in DOMAIN sessions :
        /\ Revoked(i)
        /\ Cardinality(TokensOf(i)) >= 2
        /\ LiveTokensOf(i) = {}
        /\ HasEvent(i, "session_created")
        /\ Len(events) >= 2

\* C35: no session that is not revoked stores a risk_score at or above
\* REAUTH_RISK.
C35_ActiveBelowThreshold ==
    \A i \in DOMAIN sessions :
        sessions[i].revoked_at = NULL => sessions[i].risk_score < REAUTH_RISK

\* C36: a session that is revoked in the store owns no token that is not
\* revoked.
C36_RevokedOwnsNoLiveToken ==
    \A i \in DOMAIN sessions :
        Revoked(i)
        => \A t \in TokensOf(i) : tokens[t].revoked_at # NULL

\* C37: a refresh call that starts when the session owning the presented
\* token is revoked in the store ends at once with "Session invalid": it
\* returns no secret, adds no token and changes no token or session.
C37_Steps ==
    \A p \in Procs :
        Calls(p, "refresh")
        => \A t \in DOMAIN tokens :
               (/\ tokens[t].token_hash = hash_token(proc'[p].refresh_token)
                /\ Revoked(tokens[t].session_id))
               => /\ proc'[p].pc = "done"
                  /\ proc'[p].result = "Session invalid"
                  /\ proc'[p].returned = 0
                  /\ UNCHANGED <<sessions, tokens>>

C37_NoRefreshAfterRevoke == [][C37_Steps]_vars

\* a refresh was refused on a revoked session although the token it
\* presented, a successor obtained around the revocation, is not revoked
C37_Witness ==
    \E p \in Procs, t \in DOMAIN tokens :
        /\ Done(p, "refresh") /\ proc[p].result = "Session invalid"
        /\ proc[p].refresh_token = t
        /\ t > 1
        /\ tokens[t].revoked_at = NULL
        /\ Revoked(tokens[t].session_id)

\* C38: when an authenticate or refresh call commits successfully on a
\* session that is still ACTIVE in the store, the stored risk_score becomes
\* the score stored just before plus the delta the call computed, whatever
\* other calls have committed since this one read the session.
C38_Steps ==
    \A p \in Procs :
        (/\ proc[p].pc \in {"auth_commit", "refresh_commit"}
         /\ proc'[p].pc = "done" /\ proc'[p].result = "ok"
         /\ ~Revoked(proc[p].session.id))
        => sessions'[proc[p].session.id].risk_score
               = sessions[proc[p].session.id].risk_score
                 + calculate_risk(proc[p].session, proc[p].request_data)

C38_NoDeltaLost == [][C38_Steps]_vars

\* C39: cache_session calls cache_set for a stored session only while its
\* expires_at lies after now, with a TTL that ends at expires_at; and every
\* live cache entry belongs to a session whose expires_at lies after now
\* and ends no later than that.
C39_NoDeadEntries ==
    /\ \A i \in DOMAIN sessions :
           /\ HasLifetime(sessions[i]) => sessions[i].expires_at > now
           /\ now + RemainingLifetime(sessions[i]) = sessions[i].expires_at
    /\ \A e \in cache :
           e.expires > now
           => /\ e.value.expires_at > now
              /\ e.expires <= e.value.expires_at

\* an authenticate has just succeeded at the very instant the session
\* expires: its cache_session found no lifetime left and the cache holds
\* nothing for the session
C39_Witness ==
    \E p \in Procs :
        /\ Done(p, "authenticate") /\ proc[p].result = "ok"
        /\ sessions[proc[p].session_id].expires_at = now
        /\ ~HasLifetime(sessions[proc[p].session_id])
        /\ \A e \in cache : e.key # cache_key(proc[p].session_id)

====
